---- MODULE Spec2Model ----
(***************************************************************************)
(* Device-flow authentication and token cache of the HR onboarding         *)
(* backend: backend/ms_graph.py (token cache, silent acquisition, device   *)
(* flow polling), backend/routes/auth.py (the /auth/* handlers) and        *)
(* backend/state.py (the registry of active device flows).                 *)
(*                                                                         *)
(* The handlers are plain `def` FastAPI routes, so they run on a thread    *)
(* pool: a handler is a sequence of steps, and steps of different requests *)
(* interleave.  The requests in flight are a bag of records, one per        *)
(* running handler, each holding that handler's position and locals.       *)
(***************************************************************************)
EXTENDS Naturals, FiniteSets, Sequences, Bags, TLC

VARIABLES
    active_device_flows,   \* state.py: AppState.active_device_flows, flow_id -> descriptor
    issued,                \* flow ids uuid4 has already produced
    memAccount,            \* the in-memory token_cache holds an account
    atExpired,             \* that account's cached access token has expired
    has_state_changed,     \* token_cache.has_state_changed
    cacheFile,             \* content of CACHE_FILE
    reqs,                  \* bag of the handlers in flight (position and locals)
    session,               \* frontend/app.py: st.session_state of the one browser session
    clock,                 \* time.time() of the frontend, in seconds
    polled                 \* the frontend's status polls: when issued, what came back

vars == <<active_device_flows, issued, memAccount, atExpired,
          has_state_changed, cacheFile, reqs, session, clock, polled>>

frontVars == <<session, clock, polled>>

backendVars == <<active_device_flows, issued, memAccount, atExpired,
                 has_state_changed, cacheFile, reqs>>

cacheVars == <<memAccount, atExpired, has_state_changed, cacheFile>>

-----------------------------------------------------------------------------
(* Bounds *)

MaxFlows == 2      \* flow ids uuid4 can hand out
MaxReqs == 2       \* requests in flight at the same time

MaxTime == 6       \* seconds of frontend time looked at, counted from the start
MaxExpires == 4    \* largest expires_in of a device flow, in seconds

FlowIds == 1..MaxFlows

-----------------------------------------------------------------------------
(* Values *)

Absent == "<absent>"          \* a key a dict does not have / None
NoFid == 0
NoFlow == {"<unset>"}

\* a device-flow descriptor is modelled by the set of keys the dict has
Descriptors == SUBSET {"device_code", "user_code"}

\* what the provider's device-authorization endpoint answers: the descriptor
\* (device_code and user_code come together), or an error without user_code
FullDescriptor == {"device_code", "user_code"}
CallRaises == {"<raise>"}        \* the call raises instead of answering
DeviceAuthResponses == {FullDescriptor, {}, CallRaises}

ExpiredMsg ==
    "The authentication code has expired. Please start a new authentication flow."
InvalidFlowMsg == "Invalid device flow structure"
UnknownErrorMsg == "Unknown authentication error"
ProviderText == "AADSTS: provider text"

\* what app.acquire_token_by_device_flow(flow) can produce
NoAnswer == [kind |-> "none", error |-> Absent, error_description |-> Absent]
TokenAnswer == [kind |-> "token", error |-> Absent, error_description |-> Absent]
EmptyAnswer == [kind |-> "empty", error |-> Absent, error_description |-> Absent]
ErrorAnswers ==
    {[kind |-> "error", error |-> "authorization_pending", error_description |-> ProviderText],
     [kind |-> "error", error |-> "expired_token", error_description |-> ProviderText]}
    \cup {[kind |-> "error", error |-> "authorization_declined", error_description |-> d] :
             d \in {Absent, ProviderText}}
\* kind "raise": error is the exception's class name, error_description is str(e)
RaiseAnswers ==
    {[kind |-> "raise", error |-> "ConnectionError", error_description |-> "connection refused"],
     [kind |-> "raise", error |-> "Timeout", error_description |-> "timed out"]}
ProviderAnswers == {TokenAnswer, EmptyAnswer} \cup ErrorAnswers \cup RaiseAnswers

NoResp == [code |-> 0, status |-> Absent, error |-> Absent,
           error_description |-> Absent, flow_id |-> NoFid]

\* a handler that has just been entered
NewReq(op) == [op |-> op, pc |-> "start", fid |-> NoFid, follows |-> FALSE,
               beaten |-> FALSE, flow |-> NoFlow, ans |-> NoAnswer,
               saves |-> 0, tokenReqs |-> 0, resp |-> NoResp, exc |-> Absent]

\* Python truthiness of a string-or-None value
Falsy(v) == v = Absent \/ v = ""

\* dict.get(key, default) on a value that may be absent
Get(v, default) == IF v = Absent THEN default ELSE v

\* frontend/app.py: None where a time is expected, and the first value of
\* time.time() (a time is never 0, so it is truthy as in Python)
NoTime == 0
StartTime == 1

\* frontend/app.py, line 265: seconds between two immediate reruns
PollInterval == 3

\* no browser session is open: there is no st.session_state
NoSession == "<closed>"

\* lines 132-147: st.session_state of a new browser session
NewSession ==
    [auth_status |-> Absent, auth_flow_id |-> NoFid, auth_polling |-> FALSE,
     auth_flow_start_time |-> NoTime, auth_flow_expires_in |-> NoTime,
     auth_verification_uri |-> Absent, auth_user_code |-> Absent,
     last_poll_time |-> NoTime]

\* the status polls of the current flow: when the script last ran in the
\* authenticating state (ranAt), when it issued its last poll (at) and the
\* one before (prev), whether that poll is still out, and its reply
NoPolls == [ranAt |-> NoTime, at |-> NoTime, prev |-> NoTime,
            waiting |-> FALSE, reply |-> Absent]

-----------------------------------------------------------------------------
(* Token cache: backend/ms_graph.py *)

\* mutant of Serialize: the blob written never holds an account
Serialize_nothing(acct) == "blob:empty"

\* token_cache.serialize() / token_cache.deserialize(): the blob written to
\* and read from CACHE_FILE
Serialize(acct) == IF acct THEN "blob:account" ELSE "blob:empty"
Deserialize(blob) == blob = "blob:account"
FileContents == {"<nofile>", "<corrupt>", "blob:account", "blob:empty"}

\* save_cache(): writes only if the cache reports a change; serialize() resets
\* the flag before write_text runs; a failed write is logged and swallowed.
\* c is [mem, expired, changed, file]; writeOk is the outcome of write_text.
save_cache(c, writeOk) ==
    IF c.changed
    THEN [c EXCEPT !.changed = FALSE,
                   !.file = IF writeOk THEN Serialize(c.mem) ELSE c.file]
    ELSE c

CacheNow == [mem |-> memAccount, expired |-> atExpired,
             changed |-> has_state_changed, file |-> cacheFile]

SetCache(c) ==
    /\ memAccount' = c.mem
    /\ atExpired' = c.expired
    /\ has_state_changed' = c.changed
    /\ cacheFile' = c.file

\* get_access_token_silent(): the outcomes it can have in the current cache.
\* No account: None.  Account with a valid access token: the cached token.
\* Account with an expired one: acquire_token_silent goes to the provider and
\* either refreshes the token, returns nothing, or raises.
SilentOutcomes ==
    IF ~memAccount THEN {"none"}
    ELSE IF ~atExpired THEN {"token"}
    ELSE {"token", "none", "raise"}

\* the cache after get_access_token_silent() had outcome out: a refresh
\* changes the in-memory cache, and nothing saves it
CacheAfterSilent(out) ==
    IF memAccount /\ atExpired /\ out = "token"
    THEN [CacheNow EXCEPT !.expired = FALSE, !.changed = TRUE]
    ELSE CacheNow

-----------------------------------------------------------------------------
(* poll_device_flow: backend/ms_graph.py *)

\* a returned dict: whether it has access_token, and its status, error and
\* error_description entries
Result(token, status, error, desc) ==
    [access_token |-> token, status |-> status, error |-> error,
     error_description |-> desc]

\* mutant of valid_flow: only the empty descriptor is rejected
valid_flow_nonempty(flow) == flow # {}

\* line 153: the flow structure is valid
valid_flow(flow) == ~(flow = {} \/ "device_code" \notin flow)

\* mutant of no_token_result: authorization_pending is an error like any other
no_token_result_pending_fails(ans) ==
    IF ans.kind = "error"
    THEN IF ans.error = "expired_token"
         THEN Result(FALSE, "error", ans.error, ExpiredMsg)
         ELSE Result(FALSE, "error", ans.error,
                     Get(ans.error_description, "Error: " \o ans.error))
    ELSE Result(FALSE, "pending", Absent, Absent)

\* mutant of no_token_result: expired_token is passed on with the provider's
\* description
no_token_result_expired_verbatim(ans) ==
    IF ans.kind = "error"
    THEN IF ans.error = "authorization_pending"
         THEN Result(FALSE, "pending", Absent, Absent)
         ELSE Result(FALSE, "error", ans.error,
                     Get(ans.error_description, "Error: " \o ans.error))
    ELSE Result(FALSE, "pending", Absent, Absent)

\* lines 167-189: the provider's answer has no access_token
no_token_result(ans) ==
    IF ans.kind = "error"
    THEN IF ans.error = "authorization_pending"
         THEN Result(FALSE, "pending", Absent, Absent)
         ELSE IF ans.error = "expired_token"
         THEN Result(FALSE, "error", ans.error, ExpiredMsg)
         ELSE Result(FALSE, "error", ans.error,
                     Get(ans.error_description, "Error: " \o ans.error))
    ELSE Result(FALSE, "pending", Absent, Absent)

\* mutant of exception_result: the message, not the class name, is the error
exception_result_message(ans) ==
    Result(FALSE, "error", ans.error_description,
           "An error occurred during authentication: " \o ans.error_description)

\* lines 190-199: an exception raised while polling; ans.error is its class
\* name and ans.error_description its str()
exception_result(ans) ==
    Result(FALSE, "error", ans.error,
           "An error occurred during authentication: " \o ans.error_description)

\* mutant of token_acquired: the cache is not saved
token_acquired_unsaved(c, writeOk) ==
    [result |-> Result(TRUE, Absent, Absent, Absent),
     cache |-> [c EXCEPT !.mem = TRUE, !.expired = FALSE, !.changed = TRUE],
     saves |-> 0, tokenReqs |-> 1]

\* mutant of token_acquired: a failed write aborts the poll
token_acquired_needs_write(c, writeOk) ==
    IF writeOk
    THEN [result |-> Result(TRUE, Absent, Absent, Absent),
          cache |-> save_cache([c EXCEPT !.mem = TRUE, !.expired = FALSE,
                                         !.changed = TRUE], writeOk),
          saves |-> 1, tokenReqs |-> 1]
    ELSE [result |-> Result(FALSE, "error", "OSError", "write failed"),
          cache |-> c, saves |-> 1, tokenReqs |-> 1]

\* lines 161-166: the provider's answer has access_token: MSAL has put the
\* account and its tokens into the cache; save_cache() is called
token_acquired(c, writeOk) ==
    [result |-> Result(TRUE, Absent, Absent, Absent),
     cache |-> save_cache([c EXCEPT !.mem = TRUE, !.expired = FALSE,
                                    !.changed = TRUE], writeOk),
     saves |-> 1, tokenReqs |-> 1]

\* poll_device_flow(flow) when the provider call (if made) produces ans.
\* Gives the returned dict, the cache afterwards, and how often save_cache
\* and the provider were called.
poll_device_flow(flow, ans, c, writeOk) ==
    IF ~valid_flow(flow)
    THEN [result |-> Result(FALSE, "error", "invalid_flow", InvalidFlowMsg),
          cache |-> c, saves |-> 0, tokenReqs |-> 0]
    ELSE IF ans.kind = "raise"
    THEN [result |-> exception_result(ans),
          cache |-> c, saves |-> 0, tokenReqs |-> 1]
    ELSE IF ans.kind = "token"
    THEN token_acquired(c, writeOk)
    ELSE [result |-> no_token_result(ans),
          cache |-> c, saves |-> 0, tokenReqs |-> 1]

-----------------------------------------------------------------------------
(* load_cache / clear_cache: backend/ms_graph.py *)

\* mutant of load_cache: whatever file exists is taken to hold an account
load_cache_trusting(file) == file # "<nofile>"

\* load_cache() at import: the in-memory cache holds an account iff the file
\* exists and deserializes to one; a corrupt file is logged and ignored
load_cache(file) ==
    IF file = "<nofile>" \/ file = "<corrupt>" THEN FALSE ELSE Deserialize(file)

\* mutant of clear_cache: the file is unlinked without the exists() test
clear_cache_strict(c, unlinkOk) ==
    LET emptied == [c EXCEPT !.mem = FALSE, !.expired = FALSE, !.changed = FALSE]
    IN  IF c.file # "<nofile>" /\ unlinkOk
        THEN [cache |-> [emptied EXCEPT !.file = "<nofile>"], raised |-> FALSE]
        ELSE [cache |-> emptied, raised |-> TRUE]

\* clear_cache(): removes the accounts, deserializes the empty cache (which
\* resets has_state_changed), unlinks the file if it exists.  A failing
\* unlink is re-raised.
clear_cache(c, unlinkOk) ==
    LET emptied == [c EXCEPT !.mem = FALSE, !.expired = FALSE, !.changed = FALSE]
    IN  IF c.file = "<nofile>"
        THEN [cache |-> emptied, raised |-> FALSE]
        ELSE IF unlinkOk
        THEN [cache |-> [emptied EXCEPT !.file = "<nofile>"], raised |-> FALSE]
        ELSE [cache |-> emptied, raised |-> TRUE]

-----------------------------------------------------------------------------
(* Handlers: backend/routes/auth.py *)

InFlight == BagToSet(reqs)

\* every response produced so far has been handed to its client: the hand-over
\* touches nothing shared, so it is taken before any other step
Sent == \A q \in InFlight : q.pc # "done"

\* a handler in flight is at step pc of route op
At(rec, op, pc) == rec.op = op /\ rec.pc = pc /\ Sent /\ rec \in InFlight

\* a worker thread is free to take a request
Free == Sent /\ BagCardinality(reqs) < MaxReqs

Enter(rec) == reqs' = reqs (+) SetToBag({rec})
Step(old, new) == reqs' = (reqs (-) SetToBag({old})) (+) SetToBag({new})

\* the handler returns: its locals are gone, the response stays
Done(rec, code, status, error, desc, fid, exc) ==
    [rec EXCEPT !.pc = "done", !.exc = exc, !.flow = NoFlow,
                !.resp = [code |-> code, status |-> status, error |-> error,
                          error_description |-> desc, flow_id |-> fid]]

\* except Exception: HTTPException(status_code=500)
Http500(rec, exc) == Done(rec, 500, Absent, Absent, Absent, NoFid, exc)

InFlightInitiates == {q \in InFlight : q.op = "initiate" /\ q.pc # "done"}

\* mutant of initiate_device_flow: the response is returned unexamined
initiate_device_flow_unchecked(resp) ==
    IF resp = CallRaises THEN [flow |-> NoFlow, exc |-> "ConnectionError"]
    ELSE [flow |-> resp, exc |-> Absent]

\* initiate_device_flow(), ms_graph.py: the provider's device-authorization
\* response resp, or CallRaises.  Gives the returned flow, or the class of the
\* exception raised (without user_code: ValueError).
initiate_device_flow(resp) ==
    IF resp = CallRaises THEN [flow |-> NoFlow, exc |-> "ConnectionError"]
    ELSE IF "user_code" \notin resp THEN [flow |-> NoFlow, exc |-> "ValueError"]
    ELSE [flow |-> resp, exc |-> Absent]

\* POST /auth/initiate, lines 27-36: the request arrives, is_authenticated()
\* is evaluated and, if it is false, the provider is asked for a device flow;
\* any exception is the handler's HTTP 500
InitiateStart ==
    /\ Free
    /\ Cardinality(issued) + Cardinality(InFlightInitiates) < MaxFlows
    /\ \E out \in SilentOutcomes :
       \E resp \in (IF out = "none" THEN DeviceAuthResponses ELSE {FullDescriptor}) :
         /\ SetCache(CacheAfterSilent(out))
         /\ LET rec == NewReq("initiate")
                i == initiate_device_flow(resp)
            IN  Enter(CASE out = "token" ->
                             Done(rec, 200, "authenticated", Absent, Absent, NoFid, Absent)
                        [] out = "raise" -> Http500(rec, "SilentError")
                        [] out = "none" /\ i.exc # Absent -> Http500(rec, i.exc)
                        [] out = "none" /\ i.exc = Absent ->
                             [rec EXCEPT !.flow = i.flow, !.pc = "store"])
    /\ UNCHANGED <<active_device_flows, issued>>
    /\ UNCHANGED frontVars

\* mutant of InitiateStore: the id is not new, the flow goes under a key
\* already handed out
InitiateStore_reuse(rec) ==
    /\ At(rec, "initiate", "store")
    /\ \E f \in FlowIds :
         /\ \A g \in FlowIds : f <= g
         /\ issued' = issued \cup {f}
         /\ active_device_flows' =
                [g \in DOMAIN active_device_flows \cup {f} |->
                    IF g = f THEN rec.flow ELSE active_device_flows[g]]
         /\ Step(rec, Done([rec EXCEPT !.fid = f], 200, "pending",
                           Absent, Absent, f, Absent))
    /\ UNCHANGED cacheVars
    /\ UNCHANGED frontVars

\* mutant of InitiateStore: the new session replaces the registry
InitiateStore_replaces(rec) ==
    /\ At(rec, "initiate", "store")
    /\ \E f \in FlowIds \ issued :
         /\ \A g \in FlowIds \ issued : f <= g
         /\ issued' = issued \cup {f}
         /\ active_device_flows' = [g \in {f} |-> rec.flow]
         /\ Step(rec, Done([rec EXCEPT !.fid = f], 200, "pending",
                           Absent, Absent, f, Absent))
    /\ UNCHANGED cacheVars
    /\ UNCHANGED frontVars

\* lines 39-49: uuid4 gives an id never produced before (the ids are opaque,
\* so they are taken in a fixed order); the flow is stored
InitiateStore(rec) ==
    /\ At(rec, "initiate", "store")
    /\ \E f \in FlowIds \ issued :
         /\ \A g \in FlowIds \ issued : f <= g
         /\ issued' = issued \cup {f}
         /\ active_device_flows' =
                [g \in DOMAIN active_device_flows \cup {f} |->
                    IF g = f THEN rec.flow ELSE active_device_flows[g]]
         /\ Step(rec, Done([rec EXCEPT !.fid = f], 200, "pending",
                           Absent, Absent, f, Absent))
    /\ UNCHANGED cacheVars
    /\ UNCHANGED frontVars

\* mutant of Pop: nothing is removed
Pop_nothing(flows, f) == flows

\* dict.pop(flow_id, None)
Pop(flows, f) == [g \in DOMAIN flows \ {f} |-> flows[g]]

\* dict.clear()
NoFlows == [g \in {} |-> NoFlow]

\* GET /auth/status, lines 64-65, entered with flow_id f: is_authenticated()
\* had outcome out
status_entry(f, follows, out) ==
    LET rec == [NewReq("status") EXCEPT !.fid = f, !.follows = follows]
    IN  CASE out = "token" -> [rec EXCEPT !.pc = "clear_all"]
          [] out = "none" -> [rec EXCEPT !.pc = "check"]
          [] out = "raise" -> Http500(rec, "SilentError")

StatusStart ==
    /\ Free
    /\ \E f \in FlowIds, out \in SilentOutcomes :
         /\ SetCache(CacheAfterSilent(out))
         /\ Enter(status_entry(f, FALSE, out))
    /\ UNCHANGED <<active_device_flows, issued>>
    /\ UNCHANGED frontVars

\* the response of a status request is a terminal result of its flow's poll
Terminal(rec) ==
    /\ rec.op = "status" /\ rec.pc = "done"
    /\ rec.tokenReqs > 0 \/ rec.resp.error = "invalid_flow"
    /\ rec.resp.status \in {"authenticated", "error"}

\* the client that has just been answered polls the same flow_id again at
\* once: no other step lies between the response and the new request
StatusAgain(rec) ==
    /\ rec.op = "status" /\ rec.pc = "done" /\ rec \in InFlight
    /\ \E out \in SilentOutcomes :
         /\ SetCache(CacheAfterSilent(out))
         /\ Step(rec, status_entry(rec.fid, Terminal(rec), out))
    /\ UNCHANGED <<active_device_flows, issued>>
    /\ UNCHANGED frontVars

\* mutant of StatusClearAll: the registry is left alone
StatusClearAll_keeps(rec) ==
    /\ At(rec, "status", "clear_all")
    /\ Step(rec, Done(rec, 200, "authenticated", Absent, Absent, NoFid, Absent))
    /\ UNCHANGED <<active_device_flows, issued, cacheVars>>
    /\ UNCHANGED frontVars

\* lines 66-70: already authenticated, every flow is dropped
StatusClearAll(rec) ==
    /\ At(rec, "status", "clear_all")
    /\ active_device_flows' = NoFlows
    /\ Step(rec, Done(rec, 200, "authenticated", Absent, Absent, NoFid, Absent))
    /\ UNCHANGED <<issued, cacheVars>>
    /\ UNCHANGED frontVars

\* mutant of StatusCheck: the test is inverted
StatusCheck_inverted(rec) ==
    /\ At(rec, "status", "check")
    /\ Step(rec, IF rec.fid \in DOMAIN active_device_flows
                 THEN Done(rec, 404, Absent, Absent, Absent, NoFid, "HTTPException")
                 ELSE [rec EXCEPT !.pc = "lookup"])
    /\ UNCHANGED <<active_device_flows, issued, cacheVars>>
    /\ UNCHANGED frontVars

\* lines 73-77: the existence check
StatusCheck(rec) ==
    /\ At(rec, "status", "check")
    /\ Step(rec, IF rec.fid \notin DOMAIN active_device_flows
                 THEN Done(rec, 404, Absent, Absent, Absent, NoFid, "HTTPException")
                 ELSE [rec EXCEPT !.pc = "lookup"])
    /\ UNCHANGED <<active_device_flows, issued, cacheVars>>
    /\ UNCHANGED frontVars

\* line 79: the subscript; a key removed since the check is a KeyError, which
\* lines 107-112 turn into HTTP 500
StatusLookup(rec) ==
    /\ At(rec, "status", "lookup")
    /\ Step(rec, IF rec.fid \notin DOMAIN active_device_flows
                 THEN Http500(rec, "KeyError")
                 ELSE [rec EXCEPT !.flow = active_device_flows[rec.fid],
                                  !.pc = "poll"])
    /\ UNCHANGED <<active_device_flows, issued, cacheVars>>
    /\ UNCHANGED frontVars

\* mutant of HandleResult: an error is reported with the fixed text
HandleResult_generic(flows, f, result) ==
    IF result.access_token
    THEN [flows |-> Pop(flows, f), status |-> "authenticated",
          error |-> Absent, error_description |-> Absent]
    ELSE IF result.status = "error"
    THEN [flows |-> Pop(flows, f), status |-> "error",
          error |-> Get(result.error, "unknown_error"),
          error_description |-> UnknownErrorMsg]
    ELSE [flows |-> flows, status |-> "pending",
          error |-> Absent, error_description |-> Absent]

\* mutant of HandleResult: a terminal result empties the registry
HandleResult_clears(flows, f, result) ==
    IF result.access_token
    THEN [flows |-> NoFlows, status |-> "authenticated",
          error |-> Absent, error_description |-> Absent]
    ELSE IF result.status = "error"
    THEN [flows |-> NoFlows, status |-> "error",
          error |-> Get(result.error, "unknown_error"),
          error_description |->
              IF ~Falsy(result.error_description) THEN result.error_description
              ELSE IF ~Falsy(result.error) THEN result.error
              ELSE UnknownErrorMsg]
    ELSE [flows |-> flows, status |-> "pending",
          error |-> Absent, error_description |-> Absent]

\* lines 84-104: what the handler does with the poll's result: the registry
\* afterwards and the response
HandleResult(flows, f, result) ==
    IF result.access_token
    THEN [flows |-> Pop(flows, f), status |-> "authenticated",
          error |-> Absent, error_description |-> Absent]
    ELSE IF result.status = "error"
    THEN [flows |-> Pop(flows, f), status |-> "error",
          error |-> Get(result.error, "unknown_error"),
          error_description |->
              IF ~Falsy(result.error_description) THEN result.error_description
              ELSE IF ~Falsy(result.error) THEN result.error
              ELSE UnknownErrorMsg]
    ELSE [flows |-> flows, status |-> "pending",
          error |-> Absent, error_description |-> Absent]

\* another status request for flow f has just returned a terminal result:
\* the requests for f that were in flight at that moment have been beaten to it
Beat(bag, f) ==
    LET others == BagToSet(bag)
        mark(q) == IF q.op = "status" /\ q.fid = f THEN [q EXCEPT !.beaten = TRUE] ELSE q
    IN  [m \in {mark(q) : q \in others} |->
            LET src == {q \in others : mark(q) = m}
                n[S \in SUBSET src] ==
                    IF S = {} THEN 0
                    ELSE LET q == CHOOSE q \in S : TRUE IN bag[q] + n[S \ {q}]
            IN  n[src]]

\* lines 82-104: poll_device_flow(flow) is one provider round trip; when it
\* is back the handler finishes on its result
StatusPoll(rec) ==
    /\ At(rec, "status", "poll")
    /\ \E ans \in ProviderAnswers :
       \E writeOk \in (IF ans.kind = "token" THEN BOOLEAN ELSE {TRUE}) :
         LET p == poll_device_flow(rec.flow, ans, CacheNow, writeOk)
             h == HandleResult(active_device_flows, rec.fid, p.result)
             out == [Done(rec, 200, h.status, h.error, h.error_description,
                          NoFid, Absent)
                        EXCEPT !.ans = IF p.tokenReqs = 0 THEN NoAnswer ELSE ans,
                               !.saves = p.saves,
                               !.tokenReqs = p.tokenReqs]
             rest == reqs (-) SetToBag({rec})
         IN  /\ SetCache(p.cache)
             /\ active_device_flows' = h.flows
             /\ reqs' = (IF h.status = "pending" THEN rest ELSE Beat(rest, rec.fid))
                            (+) SetToBag({out})
    /\ UNCHANGED issued
    /\ UNCHANGED frontVars

\* POST /auth/logout, line 176: the request arrives and clear_cache() runs
LogoutClearCache ==
    /\ Free
    /\ \E unlinkOk \in (IF cacheFile = "<nofile>" THEN {TRUE} ELSE BOOLEAN) :
         LET c == clear_cache(CacheNow, unlinkOk)
             rec == NewReq("logout")
         IN  /\ SetCache(c.cache)
             /\ Enter(IF c.raised THEN Http500(rec, "OSError")
                      ELSE [rec EXCEPT !.pc = "clear_flows"])
    /\ UNCHANGED <<active_device_flows, issued>>
    /\ UNCHANGED frontVars

\* lines 177-181
LogoutClearFlows(rec) ==
    /\ At(rec, "logout", "clear_flows")
    /\ active_device_flows' = NoFlows
    /\ Step(rec, Done(rec, 200, "success", Absent, Absent, NoFid, Absent))
    /\ UNCHANGED <<issued, cacheVars>>
    /\ UNCHANGED frontVars

\* the response has been sent; the worker thread is free again
Return(rec) ==
    /\ rec.pc = "done" /\ rec \in InFlight
    /\ reqs' = reqs (-) SetToBag({rec})
    /\ UNCHANGED <<active_device_flows, issued, cacheVars>>
    /\ UNCHANGED frontVars

\* time passes: the cached access token reaches its expiry
TokenExpires ==
    /\ Sent
    /\ memAccount /\ ~atExpired
    /\ atExpired' = TRUE
    /\ UNCHANGED <<active_device_flows, issued, memAccount,
                   has_state_changed, cacheFile, reqs>>
    /\ UNCHANGED frontVars

-----------------------------------------------------------------------------
(* The service *)

\* after import of ms_graph (load_cache ran on whatever file a previous run
\* left) and of state (empty registry), no request in flight
InitBackend ==
    /\ active_device_flows = NoFlows
    /\ issued = {}
    /\ cacheFile \in {"<nofile>", "<corrupt>", "blob:account"}
    /\ memAccount = load_cache(cacheFile)
    /\ atExpired \in (IF memAccount THEN BOOLEAN ELSE {FALSE})
    /\ has_state_changed = FALSE
    /\ reqs = EmptyBag

\* the backend on its own: no browser session is open
Init ==
    /\ InitBackend
    /\ session = NoSession
    /\ clock = StartTime
    /\ polled = NoSession

Next ==
    \/ InitiateStart
    \/ \E rec \in InFlight : InitiateStore(rec)
    \/ StatusStart
    \/ \E rec \in InFlight : StatusAgain(rec)
    \/ \E rec \in InFlight : StatusClearAll(rec)
    \/ \E rec \in InFlight : StatusCheck(rec)
    \/ \E rec \in InFlight : StatusLookup(rec)
    \/ \E rec \in InFlight : StatusPoll(rec)
    \/ LogoutClearCache
    \/ \E rec \in InFlight : LogoutClearFlows(rec)
    \/ \E rec \in InFlight : Return(rec)
    \/ TokenExpires

Spec == Init /\ [][Next]_vars

\* the same service started without a cached account: its cache holds an
\* account exactly when a device-flow poll has put one there and no logout
\* has cleared it since
InitFresh == Init /\ ~memAccount

SpecFresh == InitFresh /\ [][Next]_vars

\* poll_device_flow called on its own with an arbitrary descriptor
DirectPoll ==
    /\ Free
    /\ \E flow \in Descriptors, ans \in ProviderAnswers, writeOk \in BOOLEAN :
         LET p == poll_device_flow(flow, ans, CacheNow, writeOk)
         IN  /\ SetCache(p.cache)
             /\ Enter([NewReq("poll_device_flow") EXCEPT
                          !.pc = "done", !.flow = flow,
                          !.ans = IF p.tokenReqs = 0 THEN NoAnswer ELSE ans,
                          !.saves = p.saves, !.tokenReqs = p.tokenReqs,
                          !.resp = [NoResp EXCEPT
                                       !.status = p.result.status,
                                       !.error = p.result.error,
                                       !.error_description = p.result.error_description]])
    /\ UNCHANGED <<active_device_flows, issued>>
    /\ UNCHANGED frontVars

NextPoll ==
    \/ DirectPoll
    \/ \E rec \in InFlight : Return(rec)
    \/ TokenExpires

SpecPoll == Init /\ [][NextPoll]_vars

-----------------------------------------------------------------------------
(* The functions of backend/ms_graph.py called one after the other *)

\* line 32: read_text() / deserialize() raise on a file that cannot be read
\* or parsed
deserialize_raises(file) == file = "<corrupt>"

\* the exception that leaves load_cache(): lines 31-35 catch whatever the
\* read or the parse raises and log it
load_cache_exc(file) ==
    LET raised == IF file # "<nofile>" /\ deserialize_raises(file)
                  THEN "JSONDecodeError" ELSE Absent
        caught == raised # Absent
    IN  IF caught THEN Absent ELSE raised

\* what app.acquire_token_silent(SCOPES, account=accounts[0]) gives
\* get_access_token(): "no_account" when it is not called at all, the cached
\* or refreshed token, None, a dict without access_token, or an exception
AcquireResults ==
    IF ~memAccount THEN {"no_account"}
    ELSE IF ~atExpired THEN {"token"}
    ELSE {"token", "None", "no_token", "raise"}

\* the same result as get_access_token_silent() sees it
Silent(res) ==
    CASE res = "token" -> "token"
      [] res = "raise" -> "raise"
      [] OTHER -> "none"

\* mutant of get_access_token: a missing result is the authentication error
get_access_token_guarded(res) ==
    [token |-> res = "token",
     exc |-> CASE res = "token" -> Absent
               [] res = "raise" -> "SilentError"
               [] OTHER -> "Exception"]

\* get_access_token(), lines 100-114: result stays None without an account
\* and acquire_token_silent may return None; `"access_token" in None` is a
\* TypeError.  A dict without access_token is the Exception of line 114.
get_access_token(res) ==
    [token |-> res = "token",
     exc |-> CASE res = "token" -> Absent
               [] res = "raise" -> "SilentError"
               [] res \in {"no_account", "None"} -> "TypeError"
               [] res = "no_token" -> "Exception"]

\* the call made last, with what it was given and what it did
LastCall ==
    IF reqs = EmptyBag THEN NewReq("<none>") ELSE CHOOSE q \in InFlight : TRUE

Call(op, kind, status, exc) ==
    [NewReq(op) EXCEPT !.pc = "returned", !.ans = [NoAnswer EXCEPT !.kind = kind],
                       !.resp = [NoResp EXCEPT !.status = status], !.exc = exc]

\* the call is made; follows: it comes straight after a call of the same
\* function that returned normally
Called(rec) ==
    reqs' = SetToBag({[rec EXCEPT !.follows = (LastCall.op = rec.op /\ LastCall.exc = Absent)]})

\* the save_cache() before this point wrote the in-memory cache to the file
JustWritten == LastCall.op = "save_cache" /\ LastCall.resp.status = "written"

\* a fresh process imports ms_graph: empty token_cache, then load_cache().
\* The file holds the tokens of the last write: straight after a write they
\* are the in-memory ones, otherwise the file's access token may have expired
\* or not.
CallLoad ==
    /\ memAccount' = load_cache(cacheFile)
    /\ atExpired' \in (IF ~memAccount' THEN {FALSE}
                       ELSE IF JustWritten THEN {atExpired} ELSE BOOLEAN)
    /\ has_state_changed' = FALSE
    /\ Called(Call("load_cache", cacheFile,
                   IF JustWritten THEN "after_write" ELSE Absent,
                   load_cache_exc(cacheFile)))
    /\ UNCHANGED <<active_device_flows, issued, cacheFile>>
    /\ UNCHANGED frontVars

CallSave ==
    /\ \E writeOk \in BOOLEAN :
         /\ SetCache(save_cache(CacheNow, writeOk))
         /\ Called(Call("save_cache", IF memAccount THEN "account" ELSE "empty",
                        IF ~has_state_changed THEN "unchanged"
                        ELSE IF writeOk THEN "written" ELSE "write_failed",
                        Absent))
    /\ UNCHANGED <<active_device_flows, issued>>
    /\ UNCHANGED frontVars

CallClear ==
    /\ \E unlinkOk \in BOOLEAN :
         LET c == clear_cache(CacheNow, unlinkOk)
         IN  /\ SetCache(c.cache)
             /\ Called(Call("clear_cache", cacheFile, Absent,
                            IF c.raised THEN "OSError" ELSE Absent))
    /\ UNCHANGED <<active_device_flows, issued>>
    /\ UNCHANGED frontVars

CallSilent ==
    /\ \E out \in SilentOutcomes :
         /\ SetCache(CacheAfterSilent(out))
         /\ Called(Call("get_access_token_silent", out, Absent,
                        IF out = "raise" THEN "SilentError" ELSE Absent))
    /\ UNCHANGED <<active_device_flows, issued>>
    /\ UNCHANGED frontVars

CallGetToken ==
    /\ \E res \in AcquireResults :
         /\ SetCache(CacheAfterSilent(Silent(res)))
         /\ Called(Call("get_access_token", res, Absent, get_access_token(res).exc))
    /\ UNCHANGED <<active_device_flows, issued>>
    /\ UNCHANGED frontVars

CallPoll ==
    /\ \E ans \in ProviderAnswers, writeOk \in BOOLEAN :
         LET p == poll_device_flow(FullDescriptor, ans, CacheNow, writeOk)
         IN  /\ SetCache(p.cache)
             /\ Called([Call("poll_device_flow", ans.kind, p.result.status, Absent)
                           EXCEPT !.saves = p.saves, !.tokenReqs = p.tokenReqs])
    /\ UNCHANGED <<active_device_flows, issued>>
    /\ UNCHANGED frontVars

NextCache ==
    \/ CallLoad
    \/ CallSave
    \/ CallClear
    \/ CallSilent
    \/ CallGetToken
    \/ CallPoll
    \/ TokenExpires

SpecCache == Init /\ [][NextCache]_vars

-----------------------------------------------------------------------------
(* GET /auth/check and GET /auth/user beside POST /auth/logout *)

\* GET /auth/check, lines 121-138: is_authenticated(); whatever it raises is
\* the handler's HTTP 500
CheckAuth ==
    /\ Free
    /\ \E out \in SilentOutcomes :
         /\ SetCache(CacheAfterSilent(out))
         /\ LET rec == [NewReq("check") EXCEPT !.ans = [NoAnswer EXCEPT !.kind = out]]
            IN  Enter(CASE out = "token" ->
                             Done(rec, 200, "authenticated", Absent, Absent, NoFid, Absent)
                        [] out = "none" ->
                             Done(rec, 200, "not_authenticated", Absent, Absent, NoFid, Absent)
                        [] out = "raise" -> Http500(rec, "SilentError"))
    /\ UNCHANGED <<active_device_flows, issued>>
    /\ UNCHANGED frontVars

\* GET /auth/user, lines 147-151: not authenticated is HTTP 401
UserStart ==
    /\ Free
    /\ \E out \in SilentOutcomes :
         /\ SetCache(CacheAfterSilent(out))
         /\ LET rec == NewReq("user")
            IN  Enter(CASE out = "token" -> [rec EXCEPT !.pc = "profile"]
                        [] out = "none" ->
                             Done(rec, 401, Absent, Absent, Absent, NoFid, "HTTPException")
                        [] out = "raise" -> Http500(rec, "SilentError"))
    /\ UNCHANGED <<active_device_flows, issued>>
    /\ UNCHANGED frontVars

\* what the Graph API answers the profile request
GraphAnswers == {"ok", "HTTPError"}

\* lines 153-167: a new GraphAPIClient has no token, so get_user_profile()
\* calls get_access_token() (_ensure_authenticated) and then asks the Graph
\* API; every exception but HTTPException is the handler's HTTP 500
UserProfile(rec) ==
    /\ At(rec, "user", "profile")
    /\ \E res \in AcquireResults, graph \in GraphAnswers :
         LET t == get_access_token(res)
             asked == [rec EXCEPT !.ans = [NoAnswer EXCEPT !.kind = res]]
         IN  /\ SetCache(CacheAfterSilent(Silent(res)))
             /\ Step(rec, IF t.exc # Absent THEN Http500(asked, t.exc)
                          ELSE IF graph = "HTTPError" THEN Http500(asked, "HTTPError")
                          ELSE Done(asked, 200, "success", Absent, Absent, NoFid, Absent))
    /\ UNCHANGED <<active_device_flows, issued>>
    /\ UNCHANGED frontVars

\* the handlers that never poll the provider for a device flow: in this
\* service nobody completes a login, the account is the one the file held
NextUser ==
    \/ InitiateStart
    \/ \E rec \in InFlight : InitiateStore(rec)
    \/ CheckAuth
    \/ UserStart
    \/ \E rec \in InFlight : UserProfile(rec)
    \/ LogoutClearCache
    \/ \E rec \in InFlight : LogoutClearFlows(rec)
    \/ \E rec \in InFlight : Return(rec)
    \/ TokenExpires

SpecUser == Init /\ [][NextUser]_vars

-----------------------------------------------------------------------------
(* The authentication sidebar: frontend/app.py *)

\* what GET /auth/status can bring the frontend: a 200 with one of the three
\* statuses, a 404, another HTTP error, a timeout, a connection error
PollReplies == {"authenticated", "error", "pending", "404", "500",
                "timeout", "connect_error"}

\* mutant of poll_auth_status: a 404 is retried like every other HTTP error
poll_auth_status_retry(reply) ==
    CASE reply \in {"authenticated", "pending"} ->
             [status |-> reply, error_description |-> Absent]
      [] reply = "error" -> [status |-> reply, error_description |-> ProviderText]
      [] OTHER -> [status |-> "pending", error_description |-> Absent]

\* poll_auth_status(flow_id), lines 73-105: the dict it returns
poll_auth_status(reply) ==
    CASE reply \in {"authenticated", "pending"} ->
             [status |-> reply, error_description |-> Absent]
      [] reply = "error" -> [status |-> reply, error_description |-> ProviderText]
      [] reply = "404" ->
             [status |-> "error",
              error_description |-> "Authentication flow not found: detail"]
      [] OTHER -> [status |-> "pending", error_description |-> Absent]

\* what initiate_auth() returns, lines 48-70: None, or the JSON of POST
\* /auth/initiate, which with status pending has flow_id, user_code,
\* verification_uri and expires_in
InitiateReplies ==
    {[status |-> st, flow_id |-> NoFid, expires_in |-> NoTime] :
         st \in {"<None>", "authenticated"}}
    \cup {[status |-> "pending", flow_id |-> f, expires_in |-> e] :
             f \in FlowIds, e \in 1..MaxExpires}

\* lines 213-219 and 250-256: back to not_authenticated, the flow forgotten
ResetFlow(s) ==
    [s EXCEPT !.auth_status = "not_authenticated", !.auth_flow_id = NoFid,
              !.auth_polling = FALSE, !.auth_flow_start_time = NoTime,
              !.auth_flow_expires_in = NoTime,
              !.auth_verification_uri = Absent, !.auth_user_code = Absent]

\* mutant of Expired: the code never expires locally
Expired_never(s, now) == FALSE

\* lines 184 and 208-211: the instructions are shown, start time and
\* expires_in are set, and remaining = expires_in - elapsed is <= 0
Expired(s, now) ==
    /\ ~Falsy(s.auth_verification_uri) /\ ~Falsy(s.auth_user_code)
    /\ s.auth_flow_start_time # NoTime /\ s.auth_flow_expires_in # 0
    /\ now - s.auth_flow_start_time >= s.auth_flow_expires_in

\* lines 150-158: the first script run of the session asks GET /auth/check
FrontLoad ==
    /\ session.auth_status = Absent
    /\ \E authenticated \in BOOLEAN :
         session' = [session EXCEPT !.auth_status =
                        IF authenticated THEN "authenticated" ELSE "not_authenticated"]
    /\ UNCHANGED <<clock, polled, backendVars>>

\* lines 172-178: the Logout button; logout() is True when POST /auth/logout
\* succeeded
LogoutButton ==
    /\ session.auth_status = "authenticated"
    /\ \E ok \in BOOLEAN :
         session' = IF ok
                    THEN [session EXCEPT !.auth_status = "not_authenticated",
                                         !.auth_flow_id = NoFid,
                                         !.auth_polling = FALSE]
                    ELSE session
    /\ UNCHANGED <<clock, polled, backendVars>>

\* lines 281-292: the Authenticate button.  Flows are started early enough
\* for their expiry to fall into the time looked at.
AuthenticateButton ==
    /\ session.auth_status = "not_authenticated"
    /\ \E r \in InitiateReplies :
         /\ clock + r.expires_in <= MaxTime
         /\ IF r.status = "pending"
            THEN /\ session' = [session EXCEPT
                                   !.auth_status = "authenticating",
                                   !.auth_flow_id = r.flow_id,
                                   !.auth_polling = TRUE,
                                   !.auth_flow_start_time = clock,
                                   !.auth_flow_expires_in = r.expires_in,
                                   !.auth_verification_uri = "https://verify",
                                   !.auth_user_code = "CODE"]
                 /\ polled' = NoPolls
            ELSE UNCHANGED <<session, polled>>
    /\ UNCHANGED <<clock, backendVars>>

\* lines 180-231: a script run in the authenticating state up to the status
\* poll: the expiry check, then, if still polling, the request goes out
AuthenticatingRun ==
    /\ session.auth_status = "authenticating"
    /\ session.auth_flow_id # NoFid
    /\ ~polled.waiting
    /\ LET s == IF Expired(session, clock) THEN ResetFlow(session) ELSE session
       IN  /\ session' = s
           /\ polled' = IF s.auth_polling
                        THEN [polled EXCEPT !.ranAt = clock, !.prev = polled.at,
                                            !.at = clock, !.waiting = TRUE]
                        ELSE [polled EXCEPT !.ranAt = clock]
    /\ UNCHANGED <<clock, backendVars>>

\* lines 231-274: the poll is back and the run goes on with its result; a
\* pending result ends in st.rerun(), at once or after sleep(0.1)
PollReturns ==
    /\ polled.waiting
    /\ \E reply \in PollReplies :
         LET r == poll_auth_status(reply)
             last == IF session.last_poll_time = NoTime THEN clock
                     ELSE session.last_poll_time
         IN  /\ session' =
                    CASE r.status = "authenticated" ->
                             [session EXCEPT !.auth_status = "authenticated",
                                             !.auth_polling = FALSE,
                                             !.auth_flow_start_time = NoTime,
                                             !.auth_flow_expires_in = NoTime]
                      [] r.status = "error" -> ResetFlow(session)
                      [] OTHER ->
                             [session EXCEPT !.last_poll_time =
                                 IF clock - last >= PollInterval THEN clock ELSE last]
             /\ polled' = [polled EXCEPT !.waiting = FALSE, !.reply = reply]
    /\ UNCHANGED <<clock, backendVars>>

\* a second passes
Tick ==
    /\ clock < MaxTime
    /\ clock' = clock + 1
    /\ UNCHANGED <<session, polled, backendVars>>

NextFront ==
    \/ FrontLoad
    \/ LogoutButton
    \/ AuthenticateButton
    \/ AuthenticatingRun
    \/ PollReturns
    \/ Tick

\* the sidebar is looked at on its own: what the backend answers is any of
\* the replies above, its state (here: of a fresh installation) plays no part
InitFront ==
    /\ InitBackend /\ cacheFile = "<nofile>"
    /\ session = NewSession
    /\ clock = StartTime
    /\ polled = NoPolls

SpecFront == InitFront /\ [][NextFront]_vars

\* while it is in the authenticating state the script reruns itself
\* (st.rerun(), lines 268 and 274), its poll comes back or times out (httpx
\* timeout, line 76), and time goes on
SpecFrontLive ==
    /\ SpecFront
    /\ WF_vars(AuthenticatingRun) /\ WF_vars(PollReturns) /\ WF_vars(Tick)

TypeOK ==
    /\ DOMAIN active_device_flows \subseteq issued
    /\ issued \subseteq FlowIds
    /\ \A f \in DOMAIN active_device_flows : "user_code" \in active_device_flows[f]
    /\ cacheFile \in FileContents
    /\ memAccount \in BOOLEAN /\ atExpired \in BOOLEAN /\ has_state_changed \in BOOLEAN
    /\ BagCardinality(reqs) <= MaxReqs

-----------------------------------------------------------------------------
(* Properties *)

\* the responses not yet handed over (at most one)
Responses == {q \in InFlight : q.pc = "done"}

\* a status request that has been answered
Answered(rec) == rec.op = "status" /\ rec.pc = "done"

\* is_authenticated() returns true, whatever the provider does
IsAuthenticated == SilentOutcomes = {"token"}

\* C1 as claimed: a GET /auth/status whose flow_id is not a key of the
\* registry when it is answered is answered 404 and leaves the registry as it
\* was (the requests whose is_authenticated() raises are left aside).
C1_Original ==
    [][\A new \in Responses' :
          (/\ Sent /\ new.op = "status" /\ new.exc # "SilentError"
           /\ new.fid \notin DOMAIN active_device_flows)
          => /\ new.resp.code = 404
             /\ active_device_flows' = active_device_flows]_vars

\* C1 as amended: when is_authenticated() was false for the request and its
\* flow_id is not a key of the registry at the existence check, GET
\* /auth/status answers 404 and leaves the registry unchanged.
C1_NotFound ==
    [][\A rec \in InFlight :
          (StatusCheck(rec) /\ rec.fid \notin DOMAIN active_device_flows)
          => /\ \E new \in Responses' :
                   new.fid = rec.fid /\ new.resp.code = 404 /\ new.resp.status = Absent
             /\ active_device_flows' = active_device_flows]_vars

C1_Witness ==
    \E rec \in InFlight :
        /\ Answered(rec) /\ rec.resp.code = 404
        /\ rec.fid \notin DOMAIN active_device_flows
        /\ DOMAIN active_device_flows # {}

\* C2 as claimed: the GET /auth/status that immediately follows a terminal
\* result (authenticated or error) for the same flow_id is answered 404 (the
\* requests whose is_authenticated() raises are left aside).
C2_Original ==
    \A rec \in InFlight :
        (Answered(rec) /\ rec.follows /\ rec.exc # "SilentError")
        => rec.resp.code = 404

\* C2 as amended: after a terminal result the flow_id is out of the registry,
\* and the immediately following GET /auth/status with that flow_id never
\* polls the provider: it answers 404 when its is_authenticated() is false,
\* "authenticated" when it is true, and 500 when it raises.
C2_AfterTerminal ==
    \A rec \in InFlight :
        (rec.op = "status" /\ rec.follows)
        => /\ rec.fid \notin DOMAIN active_device_flows
           /\ rec.pc \in {"clear_all", "check", "done"}
           /\ rec.tokenReqs = 0
           /\ rec.pc = "done" =>
                 \/ rec.resp.code = 404
                 \/ rec.resp.code = 200 /\ rec.resp.status = "authenticated"
                 \/ rec.resp.code = 500 /\ rec.exc = "SilentError"

C2_Witness ==
    \E rec \in InFlight : Answered(rec) /\ rec.follows /\ rec.resp.code = 404

\* C3: of the GET /auth/status requests that race for one flow_id, one only
\* returns a terminal value: a request that was in flight when another
\* returned the terminal value does not return one too.
C3_OneTerminal ==
    \A rec \in InFlight : (Answered(rec) /\ rec.beaten) => ~Terminal(rec)

\* C4: a GET /auth/status whose session another request removes under it
\* answers 404: the KeyError of the lookup never becomes an HTTP 500.
C4_NotFoundNotInternalError ==
    \A rec \in InFlight :
        Answered(rec) => ~(rec.resp.code = 500 /\ rec.exc = "KeyError")

\* C5: the poll of a GET /auth/status that the provider answers with
\* authorization_pending is answered "pending" and leaves the registry, the
\* polled session and its descriptor included, as it was.
C5_PendingKeepsSession ==
    [][\A new \in Responses' :
          (Sent /\ new.op = "status" /\ new.ans.error = "authorization_pending")
          => /\ new.resp.code = 200 /\ new.resp.status = "pending"
             /\ active_device_flows' = active_device_flows]_vars

C5_Witness ==
    \E rec \in InFlight :
        /\ Answered(rec) /\ rec.ans.error = "authorization_pending"
        /\ rec.resp.status = "pending"
        /\ rec.fid \in DOMAIN active_device_flows
        /\ active_device_flows[rec.fid] = FullDescriptor

\* C6: the poll that the provider answers with expired_token is answered with
\* status error, error expired_token and the start-a-new-flow description,
\* and the polled session is out of the registry.
C6_ExpiredIsTerminal ==
    \A rec \in InFlight :
        (Answered(rec) /\ rec.ans.error = "expired_token")
        => /\ rec.resp.code = 200 /\ rec.resp.status = "error"
           /\ rec.resp.error = "expired_token"
           /\ rec.resp.error_description = ExpiredMsg
           /\ rec.fid \notin DOMAIN active_device_flows

C6_Witness ==
    \E rec \in InFlight :
        /\ Answered(rec) /\ rec.ans.error = "expired_token"
        /\ rec.resp.error = "expired_token"

\* the poll of a status request got an access token from the provider
GotToken(rec) == Answered(rec) /\ rec.ans = TokenAnswer

\* what the request that got the token does: authenticated, one save_cache
\* call, session removed
C7_PollEffect ==
    \A rec \in InFlight :
        GotToken(rec)
        => /\ rec.resp.code = 200 /\ rec.resp.status = "authenticated"
           /\ rec.saves = 1
           /\ rec.fid \notin DOMAIN active_device_flows

\* C7 as claimed (in a service started without a cached account): the poll
\* that gets an access token answers authenticated, calls save_cache once and
\* removes the session, and from then on, until a logout, is_authenticated()
\* returns true.
C7_Original == C7_PollEffect /\ (memAccount => IsAuthenticated)

\* C7 as amended: the same, with is_authenticated() true when the poll
\* returns and staying true until a logout or the expiry of the cached
\* access token.
C7_Authenticated ==
    /\ [](C7_PollEffect /\ \A rec \in InFlight : GotToken(rec) => IsAuthenticated)
    /\ [][(IsAuthenticated /\ ~IsAuthenticated') => (LogoutClearCache \/ TokenExpires)]_vars

C7_Witness ==
    \E rec \in InFlight : GotToken(rec) /\ rec.saves = 1 /\ IsAuthenticated

\* C8: a poll during which the provider call raises (network failure,
\* timeout) is answered "pending".
C8_TransientIsPending ==
    \A rec \in InFlight :
        (Answered(rec) /\ rec.ans.kind = "raise") => rec.resp.status = "pending"

\* C9: an exception raised while polling does not leave poll_device_flow: the
\* request is answered (HTTP 200) with status error and the exception's class
\* name as error.
C9_ExceptionIsResult ==
    \A rec \in InFlight :
        (Answered(rec) /\ rec.ans.kind = "raise")
        => /\ rec.resp.code = 200 /\ rec.resp.status = "error"
           /\ rec.resp.error = rec.ans.error
           /\ rec.exc = Absent

C9_Witness ==
    \E rec \in InFlight :
        Answered(rec) /\ rec.ans.kind = "raise" /\ rec.resp.error = "Timeout"

\* C10: poll_device_flow asks the provider once when the descriptor has
\* device_code; otherwise (empty descriptor included) it asks nothing and
\* returns the error invalid_flow, which no other case returns.
C10_OneTokenRequest ==
    \A rec \in InFlight :
        (rec.op = "poll_device_flow" /\ rec.pc = "done")
        => IF "device_code" \in rec.flow
           THEN rec.tokenReqs = 1 /\ rec.resp.error # "invalid_flow"
           ELSE /\ rec.tokenReqs = 0
                /\ rec.resp.status = "error" /\ rec.resp.error = "invalid_flow"

C10_Witness ==
    \E rec \in InFlight :
        /\ rec.op = "poll_device_flow" /\ rec.pc = "done"
        /\ rec.flow = {} /\ rec.resp.error = "invalid_flow" /\ rec.tokenReqs = 0

\* C11: no operation leaves the in-memory cache with a change that save_cache
\* has not been called for: whenever an operation has completed, the cache
\* does not report a change (has_state_changed is false).
C11_SaveAfterChange == ~has_state_changed

\* C12: a clear_cache() that comes straight after a clear_cache() that
\* returned raises nothing (the file is absent: no error) and leaves the state
\* the first call left: no account in memory, no cache file.
C12_ClearIdempotent ==
    [][(CallClear /\ LastCall.op = "clear_cache" /\ LastCall.exc = Absent)
       => /\ LastCall'.exc = Absent
          /\ UNCHANGED cacheVars
          /\ ~memAccount' /\ cacheFile' = "<nofile>"]_vars

C12_Witness ==
    /\ LastCall.op = "clear_cache" /\ LastCall.follows /\ LastCall.exc = Absent
    /\ ~memAccount /\ cacheFile = "<nofile>"

\* C13: load_cache() on a missing or corrupt cache file raises nothing and
\* leaves the in-memory cache without account: is_authenticated() is false.
C13_LoadTolerant ==
    (LastCall.op = "load_cache" /\ cacheFile \in {"<nofile>", "<corrupt>"})
    => /\ LastCall.exc = Absent
       /\ ~memAccount
       /\ SilentOutcomes = {"none"}

C13_Witness ==
    /\ LastCall.op = "load_cache" /\ LastCall.ans.kind = "<corrupt>"
    /\ LastCall.exc = Absent /\ ~memAccount

C16_AuthenticationRequired ==
    (LastCall.op = "get_access_token"
        /\ LastCall.ans.kind \in {"no_account", "None", "no_token"})
    => LastCall.exc = "Exception"

\* C15: is_authenticated() never raises: GET /auth/check is always answered
\* (HTTP 200) authenticated or not_authenticated, also when the silent
\* acquisition fails.
C15_SilentNeverRaises ==
    \A rec \in InFlight :
        (rec.op = "check" /\ rec.pc = "done")
        => /\ rec.resp.code = 200
           /\ rec.exc = Absent

\* C20: a GET /auth/user for which no token is to be had when the profile
\* request needs one (no account in the cache, or no access token from the
\* silent acquisition) is answered 401, never 500.
C20_NoTokenIsUnauthorized ==
    \A rec \in InFlight :
        (rec.op = "user" /\ rec.pc = "done"
            /\ rec.ans.kind \in {"no_account", "None", "no_token"})
        => rec.resp.code = 401

\* C17: a device-authorization response without user_code, or a failing call,
\* makes POST /auth/initiate answer 500 without flow_id and adds no session:
\* no flow without user_code is ever stored or about to be stored, and a
\* failed initiate leaves the registry as it was.
C17_FailedInitiate ==
    /\ [](/\ \A f \in DOMAIN active_device_flows : "user_code" \in active_device_flows[f]
          /\ \A rec \in InFlight :
                rec.op = "initiate"
                => /\ rec.pc = "store" => "user_code" \in rec.flow
                   /\ (rec.pc = "done" /\ rec.exc \in {"ValueError", "ConnectionError"})
                      => /\ rec.resp.code = 500
                         /\ rec.resp.flow_id = NoFid /\ rec.fid = NoFid)
    /\ [][\A new \in Responses' :
             (Sent /\ new.op = "initiate" /\ new.resp.code = 500)
             => active_device_flows' = active_device_flows]_vars

C17_Witness ==
    \E rec \in InFlight :
        /\ rec.op = "initiate" /\ rec.pc = "done"
        /\ rec.exc = "ValueError" /\ rec.resp.code = 500
        /\ DOMAIN active_device_flows # {}

\* C18: a POST /auth/initiate answered "pending" has added one session, under
\* the flow_id it returns, which was no key of the registry and was never
\* handed out before; the sessions already registered are as they were.
C18_FreshSession ==
    [][\A new \in Responses' :
          (Sent /\ new.op = "initiate" /\ new.resp.status = "pending")
          => LET f == new.resp.flow_id
             IN  /\ f \notin DOMAIN active_device_flows
                 /\ f \notin issued
                 /\ DOMAIN active_device_flows' = DOMAIN active_device_flows \cup {f}
                 /\ active_device_flows'[f] = FullDescriptor
                 /\ \A g \in DOMAIN active_device_flows :
                        active_device_flows'[g] = active_device_flows[g]]_vars

C18_Witness ==
    \E rec \in InFlight :
        /\ rec.op = "initiate" /\ rec.pc = "done" /\ rec.resp.status = "pending"
        /\ rec.resp.flow_id \in DOMAIN active_device_flows
        /\ Cardinality(DOMAIN active_device_flows) = 2

\* C19: when POST /auth/logout answers success the registry is empty, the
\* cache file does not exist, the in-memory cache holds no account and
\* is_authenticated() is false.
C19_LoggedOut ==
    \A rec \in InFlight :
        (rec.op = "logout" /\ rec.pc = "done" /\ rec.resp.code = 200)
        => /\ active_device_flows = NoFlows
           /\ cacheFile = "<nofile>"
           /\ ~memAccount
           /\ SilentOutcomes = {"none"}

\* C21: a GET /auth/status that finds the user already authenticated answers
\* "authenticated" without a provider poll, whatever its flow_id, and the
\* registry is empty when it answers.
C21_AuthenticatedClearsAll ==
    \A rec \in InFlight :
        (Answered(rec) /\ rec.resp.status = "authenticated" /\ rec.ans # TokenAnswer)
        => /\ rec.resp.code = 200
           /\ rec.tokenReqs = 0 /\ rec.ans = NoAnswer
           /\ active_device_flows = NoFlows

C21_Witness ==
    \E rec \in InFlight :
        /\ Answered(rec) /\ rec.resp.status = "authenticated" /\ rec.tokenReqs = 0
        /\ issued # {} /\ rec.fid \notin issued
        /\ active_device_flows = NoFlows

\* C22: when the write of the cache file fails in the save of a poll that got
\* the access token (the file does not hold the account afterwards), the
\* request is still answered authenticated, its session is removed, the
\* in-memory cache holds the account and is_authenticated() is true.
C22_WriteFailureOnlyLogged ==
    \A rec \in InFlight :
        (rec.op = "status" /\ rec.pc = "done" /\ rec.ans = TokenAnswer
            /\ cacheFile # Serialize(TRUE))
        => /\ rec.resp.code = 200 /\ rec.resp.status = "authenticated"
           /\ rec.exc = Absent
           /\ rec.fid \notin DOMAIN active_device_flows
           /\ memAccount /\ IsAuthenticated

C22_Witness ==
    \E rec \in InFlight :
        /\ GotToken(rec) /\ rec.resp.status = "authenticated"
        /\ cacheFile = "<nofile>" /\ memAccount /\ IsAuthenticated

C25_SessionLeavesOnlyBy ==
    [][\A f \in DOMAIN active_device_flows :
          \/ /\ f \in DOMAIN active_device_flows'
             /\ active_device_flows'[f] = active_device_flows[f]
          \/ \E rec \in InFlight :
                /\ rec.fid = f
                /\ \E new \in Responses' : new.fid = f /\ Terminal(new)
                /\ StatusPoll(rec)
          \/ \E rec \in InFlight : LogoutClearFlows(rec)
          \/ \E rec \in InFlight : StatusClearAll(rec)]_vars

C25_Witness ==
    \E rec \in InFlight :
        /\ Answered(rec) /\ Terminal(rec) /\ rec.resp.status = "error"
        /\ rec.fid \notin DOMAIN active_device_flows
        /\ DOMAIN active_device_flows # {}

\* C28: the steps of a GET /auth/status for flow_id X that was not found
\* authenticated (existence check, lookup, poll) leave every session other
\* than X as it was: none is added, removed or altered, whatever the result.
C28_PollTouchesOwnSession ==
    [][\A rec \in InFlight :
          \/ \A g \in (DOMAIN active_device_flows \cup DOMAIN active_device_flows') \ {rec.fid} :
                /\ g \in DOMAIN active_device_flows
                /\ g \in DOMAIN active_device_flows'
                /\ active_device_flows'[g] = active_device_flows[g]
          \/ ~(StatusCheck(rec) \/ StatusLookup(rec) \/ StatusPoll(rec))]_vars

C28_Witness ==
    \E rec \in InFlight :
        /\ GotToken(rec) /\ rec.fid \notin DOMAIN active_device_flows
        /\ DOMAIN active_device_flows # {}

\* C27: with no account in the cache (as after a logout, which also empties
\* the registry), an account gets into the cache only through a poll of a
\* session that is in the registry at that moment, that is, of a flow
\* initiated since: a poll that holds the descriptor of a session cleared
\* under it (and not reaped by a racing poll) puts no token back.
C27_NoTokenAfterLogout ==
    [][\A rec \in InFlight :
          (StatusPoll(rec) /\ ~rec.beaten /\ ~memAccount /\ memAccount')
          => rec.fid \in DOMAIN active_device_flows]_vars

\* C30: a POST /auth/logout answered 500 leaves the in-memory cache, the
\* cache file and the registry as they were before the call.
C30_FailedLogoutChangesNothing ==
    [][\A new \in Responses' :
          (Sent /\ new.op = "logout" /\ new.resp.code = 500)
          => /\ memAccount' = memAccount
             /\ cacheFile' = cacheFile
             /\ active_device_flows' = active_device_flows]_vars

\* C23: after a status poll answered 404 the frontend is in not_authenticated
\* with its flow id cleared and polling switched off (the state in which the
\* Authenticate button starts a new flow).
C23_NotFoundStartsOver ==
    (polled.reply = "404" /\ ~polled.waiting)
    => /\ session.auth_status = "not_authenticated"
       /\ session.auth_flow_id = NoFid
       /\ ~session.auth_polling
       /\ ENABLED AuthenticateButton

C23_Witness ==
    /\ polled.reply = "404" /\ ~polled.waiting
    /\ session.auth_status = "not_authenticated" /\ session.auth_flow_id = NoFid

\* C26: two consecutive status polls of the frontend for one flow are at
\* least 3 seconds apart.
C26_PollsThreeSecondsApart ==
    (polled.prev # NoTime /\ polled.at # NoTime)
    => polled.at >= polled.prev + PollInterval

====
